---- MODULE Spec2Model ----
(***************************************************************************)
(* Model of the similarity-scoring engine of ai-feature-extraction        *)
(* (src/vector_similarity_extractor.py).                                   *)
(*                                                                         *)
(* Numbers.  The Python code computes on floats; the model computes the    *)
(* same expressions on exact rationals [n |-> numerator, d |-> denominator]*)
(* (d > 0, lowest terms), so a score is the real number the float          *)
(* approximates.  Vector components are integers counted in units of 1e-4, *)
(* which makes the constant 1e-8 that cosine adds to its denominator       *)
(* exactly one squared unit.  A reported score round(v * 100, 2) is an     *)
(* integer number of hundredths of a percent (10000 = 100.00).  The        *)
(* rounding error of the individual float operations (about 1e-16) is not  *)
(* modelled.  experience_years, when numeric, is a non-negative integer.   *)
(***************************************************************************)
EXTENDS Integers, Sequences, FiniteSets, TLC

\* ------------------------------------------------------------------------
\* Bounds of the model
\* ------------------------------------------------------------------------
MaxJdItems == 2
MaxResItems == 2
MaxFiles == 2
MaxEdits == 1
MaxCandidates == 3
MaxRetries == 3
MaxListLen == 3

\* ------------------------------------------------------------------------
\* Exact rational arithmetic
\* ------------------------------------------------------------------------
Abs(i) == IF i < 0 THEN -i ELSE i

RECURSIVE Gcd(_, _)
Gcd(a, b) == IF b = 0 THEN a ELSE Gcd(b, a % b)

Lcm(a, b) == (a \div Gcd(a, b)) * b

Rat(n, d) ==
    LET g == Gcd(Abs(n), d)
    IN  [n |-> n \div g, d |-> d \div g]

RZero == [n |-> 0, d |-> 1]
ROne == [n |-> 1, d |-> 1]

RAdd(p, q) ==
    LET l == Lcm(p.d, q.d)
    IN  Rat(p.n * (l \div p.d) + q.n * (l \div q.d), l)

RMul(p, q) ==
    LET g1 == Gcd(Abs(p.n), q.d)
        g2 == Gcd(Abs(q.n), p.d)
    IN  Rat((p.n \div g1) * (q.n \div g2), (p.d \div g2) * (q.d \div g1))

RDivInt(p, k) == RMul(p, [n |-> 1, d |-> k])

RLeq(p, q) ==
    LET l == Lcm(p.d, q.d)
    IN  p.n * (l \div p.d) <= q.n * (l \div q.d)

RLess(p, q) == ~RLeq(q, p)

RMax(p, q) == IF RLeq(p, q) THEN q ELSE p

\* ------------------------------------------------------------------------
\* Python's round(v * 100, 2), as hundredths of a percent.  The quotient is
\* taken digit by digit; an exact tie goes to the even neighbour.
\* ------------------------------------------------------------------------
RECURSIVE ScaleDigits(_, _, _, _)
ScaleDigits(q, r, d, k) ==
    IF k = 0 THEN [q |-> q, r |-> r]
    ELSE ScaleDigits(q * 10 + ((r * 10) \div d), (r * 10) % d, d, k - 1)

RoundPos(n, d) ==
    LET s == ScaleDigits(n \div d, n % d, d, 4)
    IN  IF 2 * s.r > d THEN s.q + 1
        ELSE IF 2 * s.r < d THEN s.q
        ELSE IF s.q % 2 = 0 THEN s.q ELSE s.q + 1

Round2(p) == IF p.n < 0 THEN -RoundPos(-p.n, p.d) ELSE RoundPos(p.n, p.d)

\* ------------------------------------------------------------------------
\* Embedding data.  A value stored in a Vector Document for one embedding
\* is [rank |-> r, rows |-> <<v1, ..., vk>>]: rank 1 is a flat list of
\* floats (rows = <<v>>, or <<>> for the empty list []), rank 2 is a list of
\* chunk vectors, any other rank is data numpy reports with ndim > 2.
\* A vector is <<x, y>> or, with one more dimension, <<x, y, z>>; the rows
\* of one embedding have the same length.
\* ------------------------------------------------------------------------
Flat(v) == [rank |-> 1, rows |-> <<v>>]
Chunks(vs) == [rank |-> 2, rows |-> vs]
EmptyList == [rank |-> 1, rows |-> <<>>]

\* Python truthiness of the list
Truthy(e) == Len(e.rows) > 0

\* third component of a row, 0 for a two-dimensional one
Third(v) == IF Len(v) > 2 THEN v[3] ELSE 0

RECURSIVE SumRows(_, _)
SumRows(rows, i) ==
    IF i = 0 THEN <<0, 0, 0>>
    ELSE LET s == SumRows(rows, i - 1)
         IN  <<s[1] + rows[i][1], s[2] + rows[i][2], s[3] + Third(rows[i])>>

\* normalize_vector: rank 1 unchanged, rank 2 mean-pooled over the rows,
\* anything else raises ValueError.  The pooled vector is (x / k, y / k).
normalize_vector(vec) ==
    IF vec.rank = 1
    THEN [ok |-> TRUE, x |-> vec.rows[1][1], y |-> vec.rows[1][2],
          z |-> Third(vec.rows[1]), k |-> 1, dim |-> Len(vec.rows[1])]
    ELSE IF vec.rank = 2
    THEN LET s == SumRows(vec.rows, Len(vec.rows))
         IN  [ok |-> TRUE, x |-> s[1], y |-> s[2], z |-> s[3],
              k |-> Len(vec.rows), dim |-> Len(vec.rows[1])]
    ELSE [ok |-> FALSE, x |-> 0, y |-> 0, z |-> 0, k |-> 1, dim |-> 0]

RECURSIVE ISqrtFrom(_, _)
ISqrtFrom(s, r) == IF (r + 1) * (r + 1) > s THEN r ELSE ISqrtFrom(s, r + 1)

\* numpy.linalg.norm of (x, y, z); the input vectors have integral norms
Norm(a) ==
    LET ax == Abs(a.x)
        ay == Abs(a.y)
        az == Abs(a.z)
        m == IF ax > ay THEN ax ELSE ay
    IN  ISqrtFrom(ax * ax + ay * ay + az * az, IF m > az THEN m ELSE az)

\* variant: the constant added to the denominator taken as 1e-6
cosine_LargerEpsilon(a, b) ==
    Rat(a.x * b.x + a.y * b.y + a.z * b.z,
        Norm(a) * Norm(b) + 100 * a.k * b.k)

\* cosine: dot(a, b) / (norm(a) * norm(b) + 1e-8); with a = (x, y) / k in
\* units of 1e-4 this is dot / (|a| * |b| + ka * kb)
cosine(a, b) ==
    Rat(a.x * b.x + a.y * b.y + a.z * b.z, Norm(a) * Norm(b) + a.k * b.k)

\* variant: best = sim, the last resume item wins
RECURSIVE BestMatch_Last(_, _, _, _)
BestMatch_Last(jd_vec, res_list, i, best) ==
    IF i > Len(res_list) THEN best
    ELSE BestMatch_Last(jd_vec, res_list, i + 1,
                        cosine(jd_vec, normalize_vector(res_list[i])))

\* inner loop of coverage_score: best = max(best, sim) over res_list
RECURSIVE BestMatch(_, _, _, _)
BestMatch(jd_vec, res_list, i, best) ==
    IF i > Len(res_list) THEN best
    ELSE BestMatch(jd_vec, res_list, i + 1,
                   RMax(best, cosine(jd_vec, normalize_vector(res_list[i]))))

\* variant: the floor used as a cut-off, a best match below it counts 0
RECURSIVE CoverageSum_CutOff(_, _, _, _)
CoverageSum_CutOff(jd_list, res_list, floor, i) ==
    IF i = 0 THEN RZero
    ELSE LET best ==
                BestMatch(normalize_vector(jd_list[i]), res_list, 1, RZero)
         IN  RAdd(CoverageSum_CutOff(jd_list, res_list, floor, i - 1),
                  IF RLeq(floor, best) THEN best ELSE RZero)

\* outer loop of coverage_score: scores.append(max(best, floor))
RECURSIVE CoverageSum(_, _, _, _)
CoverageSum(jd_list, res_list, floor, i) ==
    IF i = 0 THEN RZero
    ELSE RAdd(CoverageSum(jd_list, res_list, floor, i - 1),
              RMax(BestMatch(normalize_vector(jd_list[i]), res_list, 1, RZero),
                   floor))

\* variant: the floor applied to the mean instead of to each JD item
coverage_score_FloorOnMean(jd_list, res_list, floor) ==
    IF Len(jd_list) = 0 THEN RZero
    ELSE RMax(RDivInt(CoverageSum(jd_list, res_list, RZero, Len(jd_list)),
                      Len(jd_list)),
              floor)

coverage_score(jd_list, res_list, floor) ==
    IF Len(jd_list) = 0 THEN RZero
    ELSE RDivInt(CoverageSum(jd_list, res_list, floor, Len(jd_list)),
                 Len(jd_list))

\* ------------------------------------------------------------------------
\* Vector Documents.  A document is a record with the six keys
\* compute_similarity reads.  embedding_model is a string, "" when the key
\* is missing or null.  A list-valued key holds a sequence of
\* embeddings (<<>> also stands for a missing key or JSON null: .get(k, [])
\* is falsy in all three cases); summary holds one embedding (EmptyList when
\* missing); experience_years is [kind |-> "num", val |-> n], or kind
\* "none" (missing / null) or "str" (a non-numeric value).
\* ------------------------------------------------------------------------
Num(n) == [kind |-> "num", val |-> n]
NoYears == [kind |-> "none", val |-> 0]
TextYears == [kind |-> "str", val |-> 0]

\* isinstance(x, (int, float))
IsNumeric(e) == e.kind = "num"

\* Policy constants of compute_similarity
RESP_FLOOR == [n |-> 3, d |-> 5]
SKILLS_FLOOR == [n |-> 11, d |-> 20]
CERT_THRESHOLD == [n |-> 3, d |-> 4]
CERT_NEUTRAL == [n |-> 1, d |-> 2]
W_SUMMARY == [n |-> 3, d |-> 10]
W_SKILLS == [n |-> 3, d |-> 10]
W_RESPONSIBILITIES == [n |-> 1, d |-> 4]
W_EXPERIENCE == [n |-> 3, d |-> 20]

\* variant: a missing value scored as neutral, the way certifications are
ExperienceScore_MissingNeutral(jd_exp, res_exp) ==
    IF IsNumeric(jd_exp) /\ IsNumeric(res_exp)
    THEN IF res_exp.val >= jd_exp.val THEN ROne
         ELSE Rat(res_exp.val, jd_exp.val)
    ELSE CERT_NEUTRAL

\* component_scores["experience"]
ExperienceScore(jd_exp, res_exp) ==
    IF IsNumeric(jd_exp) /\ IsNumeric(res_exp)
    THEN IF res_exp.val >= jd_exp.val THEN ROne
         ELSE Rat(res_exp.val, jd_exp.val)
    ELSE RZero

\* variant: only the JD summary is pooled, the resume side uses its first
\* chunk
SummaryScore_PoolJdOnly(jd_sum, res_sum) ==
    IF Truthy(jd_sum) /\ Truthy(res_sum)
    THEN cosine(normalize_vector(jd_sum),
                normalize_vector(Flat(res_sum.rows[1])))
    ELSE RZero

\* component_scores["summary"]
SummaryScore(jd_sum, res_sum) ==
    IF Truthy(jd_sum) /\ Truthy(res_sum)
    THEN cosine(normalize_vector(jd_sum), normalize_vector(res_sum))
    ELSE RZero

\* variant: only the JD side is tested for emptiness
FieldCoverage_JdOnly(jd_items, res_items, floor) ==
    IF Len(jd_items) > 0
    THEN coverage_score(jd_items, res_items, floor)
    ELSE RZero

\* component_scores["responsibilities"] and component_scores["skills"]
FieldCoverage(jd_items, res_items, floor) ==
    IF Len(jd_items) > 0 /\ Len(res_items) > 0
    THEN coverage_score(jd_items, res_items, floor)
    ELSE RZero

\* variant: a cosine equal to the threshold counts as a match
CertMatched_AtThreshold(jd_vec, res_certs) ==
    \E j \in 1..Len(res_certs) :
        RLeq(CERT_THRESHOLD, cosine(jd_vec, normalize_vector(res_certs[j])))

\* any(cosine(jd_vec, normalize_vector(res_vec)) > 0.75 for res_vec in ...)
CertMatched(jd_vec, res_certs) ==
    \E j \in 1..Len(res_certs) :
        RLess(CERT_THRESHOLD, cosine(jd_vec, normalize_vector(res_certs[j])))

\* variant: a JD certification is compared with the last resume
\* certification only
RECURSIVE CountMatched_LastOnly(_, _, _)
CountMatched_LastOnly(jd_certs, res_certs, i) ==
    IF i = 0 THEN 0
    ELSE CountMatched_LastOnly(jd_certs, res_certs, i - 1)
         + (IF CertMatched(normalize_vector(jd_certs[i]),
                           <<res_certs[Len(res_certs)]>>)
            THEN 1 ELSE 0)

RECURSIVE CountMatched(_, _, _)
CountMatched(jd_certs, res_certs, i) ==
    IF i = 0 THEN 0
    ELSE CountMatched(jd_certs, res_certs, i - 1)
         + (IF CertMatched(normalize_vector(jd_certs[i]), res_certs)
            THEN 1 ELSE 0)

\* variant: missing certifications scored 0, as in earlier revisions
CertificationScore_AbsentZero(jd_certs, res_certs) ==
    IF Len(jd_certs) > 0 /\ Len(res_certs) > 0
    THEN Rat(CountMatched(jd_certs, res_certs, Len(jd_certs)), Len(jd_certs))
    ELSE RZero

\* component_scores["certifications"]
CertificationScore(jd_certs, res_certs) ==
    IF Len(jd_certs) > 0 /\ Len(res_certs) > 0
    THEN Rat(CountMatched(jd_certs, res_certs, Len(jd_certs)), Len(jd_certs))
    ELSE CERT_NEUTRAL

\* the unrounded component_scores dictionary
ComponentScores(jd_vector, resume_vector) ==
    [experience |->
        ExperienceScore(jd_vector.experience_years,
                        resume_vector.experience_years),
     summary |-> SummaryScore(jd_vector.summary, resume_vector.summary),
     responsibilities |->
        FieldCoverage(jd_vector.responsibilities,
                      resume_vector.responsibilities, RESP_FLOOR),
     skills |->
        FieldCoverage(jd_vector.skills, resume_vector.skills, SKILLS_FLOOR),
     certifications |->
        CertificationScore(jd_vector.certifications,
                           resume_vector.certifications)]

\* variant: certifications given a share of the skills weight
FinalWeighted_WithCerts(cs) ==
    RAdd(RAdd(RMul(W_SUMMARY, cs.summary),
              RAdd(RMul([n |-> 1, d |-> 5], cs.skills),
                   RMul([n |-> 1, d |-> 10], cs.certifications))),
         RAdd(RMul(W_RESPONSIBILITIES, cs.responsibilities),
              RMul(W_EXPERIENCE, cs.experience)))

\* final_score before scaling and rounding
FinalWeighted(cs) ==
    RAdd(RAdd(RMul(W_SUMMARY, cs.summary), RMul(W_SKILLS, cs.skills)),
         RAdd(RMul(W_RESPONSIBILITIES, cs.responsibilities),
              RMul(W_EXPERIENCE, cs.experience)))

\* normalize_vector raises ValueError on an embedding of rank other than
\* 1 or 2, and numpy.dot raises ValueError on two vectors of different
\* length; the embeddings the call normalizes and compares are those of the
\* fields present on both sides (certifications stop at the first match)
RankOk(e) == normalize_vector(e).ok

\* variant: numpy.dot taken to accept vectors of different length
PairRaises_RankOnly(e1, e2) ==
    \/ ~RankOk(e1)
    \/ ~RankOk(e2)

\* cosine(normalize_vector(e1), normalize_vector(e2)) raises
PairRaises(e1, e2) ==
    \/ ~RankOk(e1)
    \/ ~RankOk(e2)
    \/ normalize_vector(e1).dim # normalize_vector(e2).dim

ListRaises(jd_items, res_items) ==
    /\ Len(jd_items) > 0
    /\ Len(res_items) > 0
    /\ \E i \in 1..Len(jd_items) :
          \E j \in 1..Len(res_items) : PairRaises(jd_items[i], res_items[j])

CertRaises(jd_certs, res_certs) ==
    /\ Len(jd_certs) > 0
    /\ Len(res_certs) > 0
    /\ \E i \in 1..Len(jd_certs) :
          \/ ~RankOk(jd_certs[i])
          \/ \E j \in 1..Len(res_certs) :
                /\ PairRaises(jd_certs[i], res_certs[j])
                /\ \A h \in 1..(j - 1) :
                      /\ ~PairRaises(jd_certs[i], res_certs[h])
                      /\ ~RLess(CERT_THRESHOLD,
                                cosine(normalize_vector(jd_certs[i]),
                                       normalize_vector(res_certs[h])))

Raises(jd_vector, resume_vector) ==
    \/ /\ Truthy(jd_vector.summary)
       /\ Truthy(resume_vector.summary)
       /\ PairRaises(jd_vector.summary, resume_vector.summary)
    \/ ListRaises(jd_vector.responsibilities, resume_vector.responsibilities)
    \/ ListRaises(jd_vector.skills, resume_vector.skills)
    \/ CertRaises(jd_vector.certifications, resume_vector.certifications)

NoScores ==
    [experience |-> 0, summary |-> 0, responsibilities |-> 0, skills |-> 0,
     certifications |-> 0]

\* what a call that raised, or no call yet, leaves behind
NoReport == [returned |-> FALSE, component_scores |-> NoScores,
             final_score |-> 0]

\* compute_similarity: the returned report, scores as round(v * 100, 2)
compute_similarity(jd_vector, resume_vector) ==
    IF Raises(jd_vector, resume_vector) THEN NoReport
    ELSE LET cs == ComponentScores(jd_vector, resume_vector)
         IN  [returned |-> TRUE,
              component_scores |->
                 [k \in DOMAIN cs |-> Round2(cs[k])],
              final_score |-> Round2(FinalWeighted(cs))]

\* variant: the product taken as A_mat @ B_mat, without the transpose
SimilarityMatrixRaises_NoTranspose(A, B) ==
    \/ \E i \in 1..Len(A) : ~RankOk(A[i])
    \/ \E j \in 1..Len(B) : ~RankOk(B[j])
    \/ \E i, h \in 1..Len(A) :
          normalize_vector(A[i]).dim # normalize_vector(A[h]).dim
    \/ \E j, h \in 1..Len(B) :
          normalize_vector(B[j]).dim # normalize_vector(B[h]).dim
    \/ normalize_vector(A[1]).dim # Len(B)

\* _similarity_matrix(A, B) raises: an embedding of a rank other than 1
\* or 2, numpy.stack on rows of different lengths, or A_mat @ B_mat.T on
\* different row lengths
SimilarityMatrixRaises(A, B) ==
    \/ \E i \in 1..Len(A) : ~RankOk(A[i])
    \/ \E j \in 1..Len(B) : ~RankOk(B[j])
    \/ \E i, h \in 1..Len(A) :
          normalize_vector(A[i]).dim # normalize_vector(A[h]).dim
    \/ \E j, h \in 1..Len(B) :
          normalize_vector(B[j]).dim # normalize_vector(B[h]).dim
    \/ normalize_vector(A[1]).dim # normalize_vector(B[1]).dim

\* the statements that run only under DEBUG_SIM / SIM_DEBUG raise
DiagnosticsRaise(jd_vector, resume_vector) ==
    \/ /\ Len(jd_vector.responsibilities) > 0
       /\ Len(resume_vector.responsibilities) > 0
       /\ SimilarityMatrixRaises(jd_vector.responsibilities,
                                 resume_vector.responsibilities)
    \/ /\ Len(jd_vector.skills) > 0
       /\ Len(resume_vector.skills) > 0
       /\ SimilarityMatrixRaises(jd_vector.skills, resume_vector.skills)

\* jd_model and res_model and jd_model != res_model
ModelMismatch(jd_vector, resume_vector) ==
    /\ jd_vector.embedding_model # ""
    /\ resume_vector.embedding_model # ""
    /\ jd_vector.embedding_model # resume_vector.embedding_model

\* the keys of the returned dict
ReportKeys == {"component_scores", "final_score"}

\* the [WARN] line, printed before any score is computed
WarnLines(jd_vector, resume_vector) ==
    IF ModelMismatch(jd_vector, resume_vector) THEN {"WARN_model_mismatch"}
    ELSE {}

\* the [FLAG] lines, printed after the score breakdown
FlagLines(jd_vector, resume_vector) ==
    LET cs == ComponentScores(jd_vector, resume_vector)
    IN  (IF /\ RLeq(ROne, cs.experience)
            /\ RLess(FinalWeighted(cs), [n |-> 7, d |-> 10])
         THEN {"FLAG_experience_met_low_score"} ELSE {})
        \cup
        (IF /\ RLess(cs.summary, [n |-> 13, d |-> 20])
            /\ jd_vector.embedding_model # ""
            /\ jd_vector.embedding_model = resume_vector.embedding_model
         THEN {"FLAG_low_summary"} ELSE {})

\* compute_similarity with the environment read at its first line: the
\* returned report and the lines written to standard output
compute_similarity_env(debug, jd_vector, resume_vector) ==
    IF ~debug
    THEN [report |-> compute_similarity(jd_vector, resume_vector),
          printed |-> {}]
    ELSE IF \/ Raises(jd_vector, resume_vector)
            \/ DiagnosticsRaise(jd_vector, resume_vector)
    THEN [report |-> NoReport, printed |-> WarnLines(jd_vector, resume_vector)]
    ELSE [report |-> compute_similarity(jd_vector, resume_vector),
          printed |-> WarnLines(jd_vector, resume_vector)
                      \cup {"DBG_score_breakdown"}
                      \cup FlagLines(jd_vector, resume_vector)]

\* coverage_score called with the skills lists of the two documents
CoverageCall(jd_vector, resume_vector, floor) ==
    [called |-> TRUE, floor |-> floor,
     score |-> coverage_score(jd_vector.skills, resume_vector.skills, floor)]

NoCoverage == [called |-> FALSE, floor |-> RZero, score |-> RZero]

\* ------------------------------------------------------------------------
\* Inputs.  All vectors of one run come from one universe, so that their
\* norms (3 and 5, or 125, in units of 1e-4) are integers:
\*   "small": cosines 9/10, 25/26, exactly 3/4, and their negatives;
\*   "big":   cosines 0.99994, 0.59996 (between the two floors), negatives.
\* ------------------------------------------------------------------------
Universes == {"small", "big"}

VecSeq(u) ==
    IF u = "small" THEN << <<3, 0>>, <<4, 3>>, <<-3, 0>> >>
    ELSE << <<125, 0>>, <<75, 100>>, <<-125, 0>> >>

Vecs(u) == {VecSeq(u)[i] : i \in 1..3}

Items(u) == {Flat(v) : v \in Vecs(u)}

ItemLists(u, n) == UNION {[1..k -> Items(u)] : k \in 0..n}

\* multi-chunk summaries whose pooled vector has an integral norm
ChunkLists(u) ==
    {c \in [1..2 -> Vecs(u)] :
        LET a == normalize_vector(Chunks(c))
        IN  Norm(a) * Norm(a) = a.x * a.x + a.y * a.y}

Rank3(v) == [rank |-> 3, rows |-> <<v>>]

Summaries(u) ==
    {EmptyList, Flat(<<0, 0>>), Rank3(VecSeq(u)[1])}
    \cup Items(u)
    \cup {Chunks(<<v>>) : v \in Vecs(u)}
    \cup {Chunks(c) : c \in ChunkLists(u)}

Years == {NoYears, TextYears, Num(0), Num(1), Num(3), Num(5), Num(10)}

Floors == {[n |-> -1, d |-> 2], RZero, SKILLS_FLOOR, RESP_FLOOR, ROne}

ListFields == {"skills", "responsibilities", "certifications"}
Fields == ListFields \cup {"summary", "experience_years"}

EmptyDoc ==
    [embedding_model |-> "",
     experience_years |-> NoYears, summary |-> EmptyList, skills |-> <<>>,
     responsibilities |-> <<>>, certifications |-> <<>>]

\* a JD and a resume with every field filled in
TypicalJd(u) ==
    LET v == VecSeq(u)
    IN  [embedding_model |-> "m1",
         experience_years |-> Num(5), summary |-> Flat(v[1]),
         skills |-> <<Flat(v[1]), Flat(v[2])>>,
         responsibilities |-> <<Flat(v[2])>>,
         certifications |-> <<Flat(v[1])>>]

TypicalResume(u) ==
    LET v == VecSeq(u)
    IN  [embedding_model |-> "m1",
         experience_years |-> Num(3), summary |-> Flat(v[2]),
         skills |-> <<Flat(v[1])>>,
         responsibilities |-> <<Flat(v[2]), Flat(v[3])>>,
         certifications |-> <<Flat(v[1])>>]

Contexts == {"empty", "typical"}
BaseJd(u, c) == IF c = "empty" THEN EmptyDoc ELSE TypicalJd(u)
BaseResume(u, c) == IF c = "empty" THEN EmptyDoc ELSE TypicalResume(u)

FieldValues(u, f, n) ==
    IF f \in ListFields THEN ItemLists(u, n)
    ELSE IF f = "summary" THEN Summaries(u)
    ELSE Years

\* ------------------------------------------------------------------------
\* State: the two documents at hand, the report of the latest
\* compute_similarity call and of the one before it, the latest direct
\* coverage_score call, and what the caller did last.
\* ------------------------------------------------------------------------
VARIABLES universe, jd, res, report, prev, cov, op, field

\* The environment of compute_similarity: whether DEBUG_SIM or SIM_DEBUG is
\* set, and what the latest call printed.
VARIABLES debug, printed

envVars == <<debug, printed>>

simVars == <<universe, jd, res, report, prev, cov, op, field, envVars>>

\* convertJsontoVector: the JSON files on disk, the argument file_paths, the
\* files under vector_output, the calls made to model.encode, and for each
\* invocation its position, loop index, the two lists built by the
\* classification loop, the item being converted and the exception raised.
VARIABLES files, file_paths, vector_store, encode_calls, edits,
          pc, idx, resumes, job_descriptions, item, error

\* the list each invocation returns
VARIABLES similarity_results

pipeVars == <<files, file_paths, vector_store, encode_calls, edits,
              pc, idx, resumes, job_descriptions, item, error,
              similarity_results>>

\* CandidateScreeningEngine: the input file and its candidates, the position
\* of run, the loop index of process_candidates, its two results, the
\* engine's upload cache, the calls made to the Drive upload, whether the
\* Excel report exists and the email went out, and the steps run so far.
VARIABLES input_json, candidates, step, cand_idx, processed_candidates,
          stats, upload_cache, uploads, report_created, email_sent, steps

engVars == <<input_json, candidates, step, cand_idx, processed_candidates,
             stats, upload_cache, uploads, report_created, email_sent,
             steps>>

\* OllamaExtractor: extract_features with its position, the attempt number
\* and the requests sent to the model so far with what came back, and
\* _validate_and_clean_data with the dictionary it is given and the
\* dictionary it builds.
VARIABLES max_retries, ext_pc, attempt, requests, data, cleaned

extVars == <<max_retries, ext_pc, attempt, requests, data, cleaned>>

vars == <<simVars, pipeVars, engVars, extVars>>

Invocations == {1, 2}

\* stats = {"Shortlisted": 0, "Maybe": 0, "Rejected": 0}
NoStats == [Shortlisted |-> 0, Maybe |-> 0, Rejected |-> 0]

\* a key the dictionary does not have
Missing == [type |-> "missing", items |-> <<>>]

NoData == [skills |-> Missing, certifications |-> Missing,
           responsibilities |-> Missing]

NoLists == [skills |-> <<>>, certifications |-> <<>>,
            responsibilities |-> <<>>]

\* no extraction has started
ExtQuiet ==
    /\ max_retries = 3
    /\ ext_pc = "start"
    /\ attempt = 1
    /\ requests = <<>>
    /\ data = NoData
    /\ cleaned = NoLists

\* no screening run has started
EngQuiet ==
    /\ input_json = "valid"
    /\ candidates = <<>>
    /\ step = "start"
    /\ cand_idx = 1
    /\ processed_candidates = <<>>
    /\ stats = NoStats
    /\ upload_cache = {}
    /\ uploads = <<>>
    /\ report_created = FALSE
    /\ email_sent = FALSE
    /\ steps = <<>>

\* no conversion is running and nothing is on disk
PipeQuiet ==
    /\ files = <<>>
    /\ file_paths = <<>>
    /\ vector_store = {}
    /\ encode_calls = [i \in Invocations |-> 0]
    /\ edits = 0
    /\ pc = [i \in Invocations |-> "idle"]
    /\ idx = [i \in Invocations |-> 1]
    /\ resumes = [i \in Invocations |-> <<>>]
    /\ job_descriptions = [i \in Invocations |-> <<>>]
    /\ item = [i \in Invocations |-> 0]
    /\ error = [i \in Invocations |-> "none"]
    /\ similarity_results = [i \in Invocations |-> <<>>]

Init ==
    \E u \in Universes, c \in Contexts, f \in Fields :
        \E x \in FieldValues(u, f, MaxJdItems),
           y \in FieldValues(u, f, MaxResItems) :
            /\ universe = u
            /\ jd = [BaseJd(u, c) EXCEPT ![f] = x]
            /\ res = [BaseResume(u, c) EXCEPT ![f] = y]
            /\ report = NoReport
            /\ prev = NoReport
            /\ cov = NoCoverage
            /\ op = "init"
            /\ field = "none"
            /\ debug = FALSE
            /\ printed = {}
            /\ PipeQuiet
            /\ EngQuiet
            /\ ExtQuiet

\* compute_similarity(jd, res)
Compare ==
    /\ op = "init"
    /\ report' = compute_similarity(jd, res)
    /\ prev' = report
    /\ op' = "compare"
    /\ UNCHANGED <<universe, jd, res, cov, field, envVars, pipeVars, engVars, extVars>>

\* the same JD against the resume with one more item in a list field
CompareExtended ==
    /\ op = "compare"
    /\ \E f \in ListFields, e \in Items(universe) :
          /\ Len(res[f]) < MaxResItems
          /\ res' = [res EXCEPT ![f] = Append(res[f], e)]
          /\ report' = compute_similarity(jd, res')
          /\ field' = f
    /\ prev' = report
    /\ op' = "extend"
    /\ UNCHANGED <<universe, jd, cov, envVars, pipeVars, engVars, extVars>>

\* compute_similarity(res, jd): the two arguments exchanged
CompareSwapped ==
    /\ op = "compare"
    /\ jd' = res
    /\ res' = jd
    /\ report' = compute_similarity(res, jd)
    /\ prev' = report
    /\ op' = "swap"
    /\ UNCHANGED <<universe, cov, field, envVars, pipeVars, engVars, extVars>>

\* coverage_score(jd.skills, res.skills, floor) called directly
Coverage ==
    /\ op = "init"
    /\ \E fl \in Floors : cov' = CoverageCall(jd, res, fl)
    /\ op' = "coverage"
    /\ UNCHANGED <<universe, jd, res, report, prev, field, envVars, pipeVars,
                   engVars, extVars>>

Next == Compare \/ CompareExtended \/ CompareSwapped \/ Coverage

Spec == Init /\ [][Next]_vars

\* ------------------------------------------------------------------------
\* compute_similarity on documents with shape anomalies, with declared
\* embedding models, and with diagnostics on or off.
\* ------------------------------------------------------------------------
GuardItems == {Flat(<<3, 0>>), Flat(<<3, 0, 4>>), Rank3(<<3, 0>>)}

GuardLists(n) == UNION {[1..k -> GuardItems] : k \in 0..n}

GuardSummaries == GuardItems \cup {EmptyList, Chunks(<< <<3, 0>> >>)}

ModelNames == {"", "m1", "m2"}

GuardFields == Fields \cup {"embedding_model"}

GuardValues(f, n) ==
    IF f \in ListFields THEN GuardLists(n)
    ELSE IF f = "summary" THEN GuardSummaries
    ELSE IF f = "embedding_model" THEN ModelNames
    ELSE Years

GuardInit ==
    \E c \in Contexts, f \in GuardFields, d \in BOOLEAN :
        \E x \in GuardValues(f, MaxJdItems), y \in GuardValues(f, MaxResItems) :
            /\ universe = "small"
            /\ jd = [BaseJd("small", c) EXCEPT ![f] = x]
            /\ res = [BaseResume("small", c) EXCEPT ![f] = y]
            /\ report = NoReport
            /\ prev = NoReport
            /\ cov = NoCoverage
            /\ op = "init"
            /\ field = "none"
            /\ debug = d
            /\ printed = {}
            /\ PipeQuiet
            /\ EngQuiet
            /\ ExtQuiet

\* compute_similarity(jd, res) under the current environment
CompareEnv ==
    /\ op = "init"
    /\ LET out == compute_similarity_env(debug, jd, res)
       IN  /\ report' = out.report
           /\ printed' = out.printed
    /\ prev' = report
    /\ op' = "compare"
    /\ UNCHANGED <<universe, jd, res, cov, field, debug, pipeVars, engVars, extVars>>

\* the same call again after the debug variables were set or unset
CompareOtherEnv ==
    /\ op = "compare"
    /\ debug' = ~debug
    /\ LET out == compute_similarity_env(~debug, jd, res)
       IN  /\ report' = out.report
           /\ printed' = out.printed
    /\ prev' = report
    /\ op' = "recompare"
    /\ UNCHANGED <<universe, jd, res, cov, field, pipeVars, engVars, extVars>>

\* variant: the extractor answers from the report of its previous call
CompareSwappedEnv_Cached ==
    /\ op = "recompare"
    /\ jd' = res
    /\ res' = jd
    /\ report' = report
    /\ printed' = {}
    /\ prev' = report
    /\ op' = "swap"
    /\ UNCHANGED <<universe, cov, field, debug, pipeVars, engVars, extVars>>

\* the same extractor called with the two documents exchanged
CompareSwappedEnv ==
    /\ op = "recompare"
    /\ jd' = res
    /\ res' = jd
    /\ LET out == compute_similarity_env(debug, res, jd)
       IN  /\ report' = out.report
           /\ printed' = out.printed
    /\ prev' = report
    /\ op' = "swap"
    /\ UNCHANGED <<universe, cov, field, debug, pipeVars, engVars, extVars>>

GuardNext == CompareEnv \/ CompareOtherEnv \/ CompareSwappedEnv

SpecGuard == GuardInit /\ [][GuardNext]_vars

\* ------------------------------------------------------------------------
\* convertJsontoVector.  Two invocations on the same file_paths run step by
\* step; between two runs a file may be edited.
\* ------------------------------------------------------------------------
NoValue == [type |-> "NoneType", text |-> "", items |-> <<>>]
Str(t) == [type |-> "str", text |-> t, items |-> <<>>]
List(xs) == [type |-> "list", text |-> "", items |-> xs]

\* the content of an extracted JSON file; parses is whether json.load
\* accepts it, name is the file name
Record(t, n, sm, sk) ==
    [parses |-> TRUE, document_type |-> t, name |-> n, summary |-> sm,
     skills |-> sk]

Malformed ==
    [parses |-> FALSE, document_type |-> "", name |-> "data.json",
     summary |-> NoValue, skills |-> NoValue]

TypesAndNames ==
    {<<"resume", "data.json">>, <<"jd", "data.json">>, <<"", "cv.json">>,
     <<"", "job.json">>, <<"", "data.json">>}

Contents ==
    {<<Str("text"), List(<<Str("a")>>)>>,
     <<Str(""), List(<<Str("a"), Str("")>>)>>,
     <<NoValue, List(<<>>)>>}

FileKinds ==
    {Malformed} \cup
    {Record(tn[1], tn[2], c[1], c[2]) : tn \in TypesAndNames, c \in Contents}

\* the classification of one loaded file: by document_type, else by the
\* file name, else the file is dropped
Classify(content) ==
    IF content.document_type = "resume" THEN "resume"
    ELSE IF content.document_type = "jd" THEN "jd"
    ELSE IF content.name = "cv.json" THEN "resume"
    ELSE IF content.name = "job.json" THEN "jd"
    ELSE "dropped"

\* _compute_checksum: the digest of the content
_compute_checksum(content) == <<"md5", content>>

\* clean_values: the items of a list value that are strings
clean_values(value) == SelectSeq(value.items, LAMBDA v : v.type = "str")

\* the texts the embedding block passes to model.encode for one field value
EncodeInputs(value) ==
    IF value.type = "NoneType" THEN <<>>
    ELSE IF value.type = "list"
    THEN [k \in 1..Len(clean_values(value)) |-> clean_values(value)[k].text]
    ELSE IF value.type = "str" THEN <<value.text>>
    ELSE <<>>

\* the result recorded for one pair: the report is read with the keys
\* overall_score, summary, skills, responsibilities, certifications, each
\* with the default 0.0
RecordedResult(similarity_report) ==
    LET get(key, value) == IF key \in ReportKeys THEN value ELSE 0
    IN  [similarity_score |->
            get("overall_score", similarity_report.final_score),
         section_scores |->
            [k \in {"summary", "skills", "responsibilities",
                    "certifications"} |->
                get(k, similarity_report.component_scores[k])]]

\* resumes + job_descriptions
ConvertItems(i) == resumes[i] \o job_descriptions[i]

PipeInit ==
    /\ \E n \in 0..MaxFiles :
          /\ file_paths = [k \in 1..n |-> k]
          /\ files \in [1..n -> FileKinds]
    /\ vector_store = {}
    /\ encode_calls = [i \in Invocations |-> 0]
    /\ edits = 0
    /\ pc = [i \in Invocations |-> "idle"]
    /\ idx = [i \in Invocations |-> 1]
    /\ resumes = [i \in Invocations |-> <<>>]
    /\ job_descriptions = [i \in Invocations |-> <<>>]
    /\ item = [i \in Invocations |-> 0]
    /\ error = [i \in Invocations |-> "none"]
    /\ similarity_results = [i \in Invocations |-> <<>>]
    /\ universe = "small"
    /\ jd = EmptyDoc
    /\ res = EmptyDoc
    /\ report = NoReport
    /\ prev = NoReport
    /\ cov = NoCoverage
    /\ op = "init"
    /\ field = "none"
    /\ debug = FALSE
    /\ printed = {}
    /\ EngQuiet
    /\ ExtQuiet

\* the call begins: the model is loaded, the two lists are empty
Start(i) ==
    /\ pc[i] = "idle"
    /\ pc' = [pc EXCEPT ![i] = "load"]
    /\ idx' = [idx EXCEPT ![i] = 1]
    /\ resumes' = [resumes EXCEPT ![i] = <<>>]
    /\ job_descriptions' = [job_descriptions EXCEPT ![i] = <<>>]
    /\ UNCHANGED <<files, file_paths, vector_store, encode_calls, edits,
                   item, error, similarity_results, simVars, engVars, extVars>>

\* one pass of the classification loop: json.load raises on a file that
\* does not parse, nothing catches it
LoadFile(i) ==
    /\ pc[i] = "load"
    /\ idx[i] <= Len(file_paths)
    /\ LET path == file_paths[idx[i]]
           content == files[path]
       IN  IF ~content.parses
           THEN /\ pc' = [pc EXCEPT ![i] = "raised"]
                /\ error' = [error EXCEPT ![i] = "JSONDecodeError"]
                /\ UNCHANGED <<idx, resumes, job_descriptions>>
           ELSE /\ resumes' =
                     IF Classify(content) = "resume"
                     THEN [resumes EXCEPT ![i] = Append(@, path)]
                     ELSE resumes
                /\ job_descriptions' =
                     IF Classify(content) = "jd"
                     THEN [job_descriptions EXCEPT ![i] = Append(@, path)]
                     ELSE job_descriptions
                /\ idx' = [idx EXCEPT ![i] = @ + 1]
                /\ UNCHANGED <<pc, error>>
    /\ UNCHANGED <<files, file_paths, vector_store, encode_calls, edits,
                   item, similarity_results, simVars, engVars, extVars>>

\* the output directory is derived from file_paths[0]
MakeOutputDir(i) ==
    /\ pc[i] = "load"
    /\ idx[i] > Len(file_paths)
    /\ IF Len(file_paths) = 0
       THEN /\ pc' = [pc EXCEPT ![i] = "raised"]
            /\ error' = [error EXCEPT ![i] = "IndexError"]
       ELSE /\ pc' = [pc EXCEPT ![i] = "loop"]
            /\ UNCHANGED error
    /\ UNCHANGED <<files, file_paths, vector_store, encode_calls, edits,
                   idx, resumes, job_descriptions, item, similarity_results,
                   simVars, engVars, extVars>>

\* the conversion loop takes its first item: path, data, output = {}
EnterItem(i) ==
    /\ pc[i] = "loop"
    /\ Len(ConvertItems(i)) > 0
    /\ item' = [item EXCEPT ![i] = ConvertItems(i)[1]]
    /\ pc' = [pc EXCEPT ![i] = "item"]
    /\ UNCHANGED <<files, file_paths, vector_store, encode_calls, edits,
                   idx, resumes, job_descriptions, error, similarity_results,
                   simVars, engVars, extVars>>

\* output['checksum'] = checksum: the name checksum is bound nowhere, the
\* statement raises NameError before anything is embedded or written
StampChecksum(i) ==
    /\ pc[i] = "item"
    /\ pc' = [pc EXCEPT ![i] = "raised"]
    /\ error' = [error EXCEPT ![i] = "NameError"]
    /\ UNCHANGED <<files, file_paths, vector_store, encode_calls, edits,
                   idx, resumes, job_descriptions, item, similarity_results,
                   simVars, engVars, extVars>>

\* nothing to convert: the call returns the empty result list
ReturnNoPairs(i) ==
    /\ pc[i] = "loop"
    /\ Len(ConvertItems(i)) = 0
    /\ pc' = [pc EXCEPT ![i] = "returned"]
    /\ similarity_results' = [similarity_results EXCEPT ![i] = <<>>]
    /\ UNCHANGED <<files, file_paths, vector_store, encode_calls, edits,
                   idx, resumes, job_descriptions, item, error, simVars,
                   engVars, extVars>>

Finished(i) == pc[i] \in {"raised", "returned"}

\* between the first run and the second, one skill is added to a record
EditFile ==
    /\ edits < MaxEdits
    /\ Finished(1)
    /\ pc[2] = "idle"
    /\ \E p \in DOMAIN files :
          /\ files[p].parses
          /\ files' = [files EXCEPT ![p].skills =
                          List(Append(@.items, Str("b")))]
    /\ edits' = edits + 1
    /\ UNCHANGED <<file_paths, vector_store, encode_calls, pc, idx, resumes,
                   job_descriptions, item, error, similarity_results, simVars,
                   engVars, extVars>>

PipeNext ==
    \/ \E i \in Invocations :
          \/ Start(i)
          \/ LoadFile(i)
          \/ MakeOutputDir(i)
          \/ EnterItem(i)
          \/ StampChecksum(i)
          \/ ReturnNoPairs(i)
    \/ EditFile

SpecPipeline == PipeInit /\ [][PipeNext]_vars

\* ------------------------------------------------------------------------
\* cosine of a vector with itself and with its negation, through the summary
\* score of compute_similarity.  The vectors range from the all-zero vector
\* over norms near 1e-4 to norms of 0.1.
\* ------------------------------------------------------------------------
CosNorms == {1, 2, 3, 10, 99, 100, 101, 125, 1000}

Signs == {-1, 1}

CosVecs ==
    {<<0, 0>>}
    \cup {<<sg * n, 0>> : sg \in Signs, n \in CosNorms}
    \cup {<<0, sg * n>> : sg \in Signs, n \in CosNorms}
    \cup {<<s1 * 3 * m, s2 * 4 * m>> :
             s1 \in Signs, s2 \in Signs, m \in {2, 20, 25}}

Negated(e) ==
    [e EXCEPT !.rows = [r \in DOMAIN e.rows |->
                          [c \in DOMAIN e.rows[r] |-> 0 - e.rows[r][c]]]]

CosInit ==
    /\ \E v \in CosVecs :
          /\ jd = [EmptyDoc EXCEPT !.summary = Flat(v)]
          /\ res = [EmptyDoc EXCEPT !.summary = Flat(v)]
    /\ universe = "small"
    /\ report = NoReport
    /\ prev = NoReport
    /\ cov = NoCoverage
    /\ op = "init"
    /\ field = "summary"
    /\ debug = FALSE
    /\ printed = {}
    /\ PipeQuiet
    /\ EngQuiet
    /\ ExtQuiet

\* compute_similarity on the JD and the resume whose summary vector is the
\* negation of the JD's
CompareNegated ==
    /\ op = "compare"
    /\ res' = [res EXCEPT !.summary = Negated(jd.summary)]
    /\ report' = compute_similarity(jd, res')
    /\ prev' = report
    /\ op' = "negated"
    /\ UNCHANGED <<universe, jd, cov, field, envVars, pipeVars, engVars, extVars>>

CosNext == Compare \/ CompareNegated

SpecCosine == CosInit /\ [][CosNext]_vars

\* ------------------------------------------------------------------------
\* CandidateScreeningEngine.run: parse, process, Excel report, email.
\* Scores and thresholds are hundredths of a percent.
\* ------------------------------------------------------------------------
shortlist_threshold == 6900
reject_threshold == 5000

\* variant: the shortlist comparison taken as strict
determine_decision_StrictShortlist(similarity_score) ==
    IF similarity_score > shortlist_threshold THEN "Shortlisted"
    ELSE IF similarity_score >= reject_threshold THEN "Maybe"
    ELSE "Rejected"

determine_decision(similarity_score) ==
    IF similarity_score >= shortlist_threshold THEN "Shortlisted"
    ELSE IF similarity_score >= reject_threshold THEN "Maybe"
    ELSE "Rejected"

\* One candidate of the input list.  flaw names what makes the processing
\* of the candidate raise: a similarity_score that float() rejects, a
\* section score that cannot be compared with 70, or a skills list whose
\* items are not strings.
Candidate(score, path, flaw) ==
    [similarity_score |-> score, resume_file_path |-> path, flaw |-> flaw]

CandidateScores == {0, 4999, 5000, 6899, 6900, 10000}

CandidateFlaws ==
    {"score_not_a_number", "section_score_not_a_number",
     "skills_not_strings"}

CandidateKinds ==
    {Candidate(sc, "", "none") : sc \in CandidateScores}
    \cup {Candidate(7500, pa, "none") : pa \in {"a.pdf", "b.pdf"}}
    \cup {Candidate(7500, "a.pdf", fl) : fl \in CandidateFlaws}

\* what one call of upload_file does: it returns a link and an id, finds
\* no file at the path, or fails in the Drive API
UploadOutcomes == {"ok", "missing", "http_error"}

\* a value of resume_url: a fixed text, or the link Drive gives to the
\* n-th upload
UrlText(text) == [text |-> text, path |-> "", n |-> 0]
DriveLink(path, n) == [text |-> "link", path |-> path, n |-> n]

IsCached(path) == \E e \in upload_cache : e.path = path

CachedLink(path) == (CHOOSE e \in upload_cache : e.path = path).link

EngInit ==
    /\ input_json \in {"valid", "absent", "invalid"}
    /\ candidates \in
          IF input_json = "valid"
          THEN UNION {[1..n -> CandidateKinds] : n \in 0..MaxCandidates}
          ELSE {<<>>}
    /\ step = "start"
    /\ cand_idx = 1
    /\ processed_candidates = <<>>
    /\ stats = NoStats
    /\ upload_cache = {}
    /\ uploads = <<>>
    /\ report_created = FALSE
    /\ email_sent = FALSE
    /\ steps = <<>>
    /\ PipeQuiet
    /\ ExtQuiet
    /\ universe = "small"
    /\ jd = EmptyDoc
    /\ res = EmptyDoc
    /\ report = NoReport
    /\ prev = NoReport
    /\ cov = NoCoverage
    /\ op = "init"
    /\ field = "none"
    /\ debug = FALSE
    /\ printed = {}

\* step 1 of run: parse_json raises on a missing or invalid file
ParseJson ==
    /\ step = "start"
    /\ steps' = Append(steps, "parse")
    /\ step' = IF input_json = "valid" THEN "process" ELSE "raised"
    /\ UNCHANGED <<input_json, candidates, cand_idx, processed_candidates,
                   stats, upload_cache, uploads, report_created, email_sent,
                   simVars, pipeVars, extVars>>

\* variant: the upload cache is not consulted
ProcessCandidate_NoCacheCheck ==
    /\ step = "process"
    /\ cand_idx <= Len(candidates)
    /\ LET c == candidates[cand_idx]
           decision == determine_decision(c.similarity_score)
           uploading ==
                      /\ c.flaw \in {"none", "skills_not_strings"}
                      /\ c.resume_file_path # ""
       IN  \E outcome \in IF uploading THEN UploadOutcomes ELSE {"none"} :
              LET link == DriveLink(c.resume_file_path, Len(uploads) + 1)
                  resume_url ==
                      IF c.resume_file_path = ""
                      THEN UrlText("Resume Not Provided")
                      ELSE IF outcome = "ok" THEN link
                      ELSE IF outcome = "missing"
                      THEN UrlText("Upload failed - see logs")
                      ELSE UrlText("Upload failed: HttpError")
              IN  /\ stats' =
                        IF c.flaw = "score_not_a_number" THEN stats
                        ELSE [stats EXCEPT ![decision] = @ + 1]
                  /\ uploads' =
                        IF uploading
                        THEN Append(uploads, [path |-> c.resume_file_path,
                                              outcome |-> outcome,
                                              by |-> cand_idx])
                        ELSE uploads
                  /\ upload_cache' =
                        IF uploading /\ outcome = "ok"
                        THEN upload_cache \cup
                                {[path |-> c.resume_file_path, link |-> link]}
                        ELSE upload_cache
                  /\ processed_candidates' =
                        IF c.flaw = "none"
                        THEN Append(processed_candidates,
                                    [index |-> cand_idx,
                                     similarity_score |-> c.similarity_score,
                                     decision |-> decision,
                                     resume_url |-> resume_url])
                        ELSE processed_candidates
    /\ cand_idx' = cand_idx + 1
    /\ UNCHANGED <<input_json, candidates, step, report_created, email_sent,
                   steps, simVars, pipeVars, extVars>>

\* one pass of the loop of process_candidates.  The decision is counted
\* right after it is determined; generate_reasoning, the upload and the
\* compilation of the processed candidate come after, and an exception in
\* any of them skips the rest of the pass.
ProcessCandidate ==
    /\ step = "process"
    /\ cand_idx <= Len(candidates)
    /\ LET c == candidates[cand_idx]
           decision == determine_decision(c.similarity_score)
           uploading ==
                      /\ c.flaw \in {"none", "skills_not_strings"}
                      /\ c.resume_file_path # ""
                      /\ ~IsCached(c.resume_file_path)
       IN  \E outcome \in IF uploading THEN UploadOutcomes ELSE {"none"} :
              LET link == DriveLink(c.resume_file_path, Len(uploads) + 1)
                  resume_url ==
                      IF c.resume_file_path = ""
                      THEN UrlText("Resume Not Provided")
                      ELSE IF IsCached(c.resume_file_path)
                      THEN CachedLink(c.resume_file_path)
                      ELSE IF outcome = "ok" THEN link
                      ELSE IF outcome = "missing"
                      THEN UrlText("Upload failed - see logs")
                      ELSE UrlText("Upload failed: HttpError")
              IN  /\ stats' =
                        IF c.flaw = "score_not_a_number" THEN stats
                        ELSE [stats EXCEPT ![decision] = @ + 1]
                  /\ uploads' =
                        IF uploading
                        THEN Append(uploads, [path |-> c.resume_file_path,
                                              outcome |-> outcome,
                                              by |-> cand_idx])
                        ELSE uploads
                  /\ upload_cache' =
                        IF uploading /\ outcome = "ok"
                        THEN upload_cache \cup
                                {[path |-> c.resume_file_path, link |-> link]}
                        ELSE upload_cache
                  /\ processed_candidates' =
                        IF c.flaw = "none"
                        THEN Append(processed_candidates,
                                    [index |-> cand_idx,
                                     similarity_score |-> c.similarity_score,
                                     decision |-> decision,
                                     resume_url |-> resume_url])
                        ELSE processed_candidates
    /\ cand_idx' = cand_idx + 1
    /\ UNCHANGED <<input_json, candidates, step, report_created, email_sent,
                   steps, simVars, pipeVars, extVars>>

\* variant: run goes on to the report with no processed candidate
EndProcessing_NoEmptyCheck ==
    /\ step = "process"
    /\ cand_idx > Len(candidates)
    /\ steps' = Append(steps, "process")
    /\ step' = "report"
    /\ UNCHANGED <<input_json, candidates, cand_idx, processed_candidates,
                   stats, upload_cache, uploads, report_created, email_sent,
                   simVars, pipeVars, extVars>>

\* process_candidates returns; run returns at once when nothing was
\* processed
EndProcessing ==
    /\ step = "process"
    /\ cand_idx > Len(candidates)
    /\ steps' = Append(steps, "process")
    /\ step' = IF Len(processed_candidates) = 0 THEN "returned" ELSE "report"
    /\ UNCHANGED <<input_json, candidates, cand_idx, processed_candidates,
                   stats, upload_cache, uploads, report_created, email_sent,
                   simVars, pipeVars, extVars>>

\* step 3 of run: create_excel_report writes the file or raises
CreateExcelReport ==
    /\ step = "report"
    /\ steps' = Append(steps, "excel")
    /\ \E written \in BOOLEAN :
          /\ report_created' = written
          /\ step' = IF written THEN "email" ELSE "raised"
    /\ UNCHANGED <<input_json, candidates, cand_idx, processed_candidates,
                   stats, upload_cache, uploads, email_sent, simVars,
                   pipeVars, extVars>>

\* step 4 of run: send_email_with_report sends or raises
SendEmail ==
    /\ step = "email"
    /\ steps' = Append(steps, "email")
    /\ \E sent \in BOOLEAN :
          /\ email_sent' = sent
          /\ step' = IF sent THEN "finished" ELSE "raised"
    /\ UNCHANGED <<input_json, candidates, cand_idx, processed_candidates,
                   stats, upload_cache, uploads, report_created, simVars,
                   pipeVars, extVars>>

EngNext ==
    \/ ParseJson
    \/ ProcessCandidate
    \/ EndProcessing
    \/ CreateExcelReport
    \/ SendEmail

SpecEngine == EngInit /\ [][EngNext]_vars

\* ------------------------------------------------------------------------
\* OllamaExtractor.extract_features (src/llm/extractor.py).  What the model
\* server sends back is the environment's choice: nothing (an HTTP error,
\* a timeout or an empty text), text that is not JSON, the JSON null, JSON
\* that validation rejects (a list, say) and JSON that validation accepts.
\* ------------------------------------------------------------------------
Responses == {"none", "malformed", "null", "invalid", "valid"}

\* _call_ollama: the generated text, or None
NoResponse(r) == r = "none"

\* _parse_json_response: the parsed data, or None
NoParse(r) == r \in {"malformed", "null"}

\* _validate_and_clean_data returns for this data
Validates(r) == r = "valid"

Request(kind, n, r) == [kind |-> kind, attempt |-> n, response |-> r]

Sent(kind) == {k \in 1..Len(requests) : requests[k].kind = kind}

\* the extractor is constructed with a positive count of attempts (3 by
\* default, 3 and 5 in example_usage.py)
ExtInit ==
    /\ \E n \in 1..MaxRetries : max_retries = n
    /\ ext_pc = "start"
    /\ attempt = 1
    /\ requests = <<>>
    /\ data = NoData
    /\ cleaned = NoLists
    /\ universe = "small"
    /\ jd = EmptyDoc
    /\ res = EmptyDoc
    /\ report = NoReport
    /\ prev = NoReport
    /\ cov = NoCoverage
    /\ op = "init"
    /\ field = "none"
    /\ debug = FALSE
    /\ printed = {}
    /\ PipeQuiet
    /\ EngQuiet

\* lines 433-437: the connection check, before any generation request
CheckConnection ==
    /\ ext_pc = "start"
    /\ \E connected \in BOOLEAN :
          ext_pc' = IF connected THEN "loop" ELSE "ConnectionError"
    /\ UNCHANGED <<max_retries, attempt, requests, data, cleaned>>
    /\ UNCHANGED <<simVars, pipeVars, engVars>>

\* lines 443-472 with the correction on the last attempt as well
Attempt_CorrectAlways ==
    /\ ext_pc = "loop"
    /\ attempt <= max_retries
    /\ \E r \in Responses :
       \E c \in IF ~NoResponse(r) /\ NoParse(r)
                THEN Responses ELSE {"none"} :
          LET extraction == Request("extract", attempt, r)
              corrected == ~NoResponse(r) /\ NoParse(r)
              correction == Request("correct", attempt, c)
              result == IF NoResponse(r) THEN "none"
                        ELSE IF ~NoParse(r) THEN r
                        ELSE IF corrected /\ ~NoResponse(c) /\ ~NoParse(c) THEN c
                        ELSE "none"
          IN  /\ requests' = IF corrected
                             THEN requests \o <<extraction, correction>>
                             ELSE Append(requests, extraction)
              /\ IF Validates(result)
                 THEN ext_pc' = "returned" /\ attempt' = attempt
                 ELSE ext_pc' = "loop" /\ attempt' = attempt + 1
    /\ UNCHANGED <<max_retries, data, cleaned>>
    /\ UNCHANGED <<simVars, pipeVars, engVars>>

\* lines 443-472: one pass of the retry loop
Attempt ==
    /\ ext_pc = "loop"
    /\ attempt <= max_retries
    /\ \E r \in Responses :
       \E c \in IF ~NoResponse(r) /\ NoParse(r) /\ attempt < max_retries
                THEN Responses ELSE {"none"} :
          LET extraction == Request("extract", attempt, r)
              corrected == ~NoResponse(r) /\ NoParse(r)
                           /\ attempt < max_retries
              correction == Request("correct", attempt, c)
              result == IF NoResponse(r) THEN "none"
                        ELSE IF ~NoParse(r) THEN r
                        ELSE IF corrected /\ ~NoResponse(c) /\ ~NoParse(c) THEN c
                        ELSE "none"
          IN  /\ requests' = IF corrected
                             THEN requests \o <<extraction, correction>>
                             ELSE Append(requests, extraction)
              /\ IF Validates(result)
                 THEN ext_pc' = "returned" /\ attempt' = attempt
                 ELSE ext_pc' = "loop" /\ attempt' = attempt + 1
    /\ UNCHANGED <<max_retries, data, cleaned>>
    /\ UNCHANGED <<simVars, pipeVars, engVars>>

\* lines 474-477: the loop ran out of attempts
RaiseValueError ==
    /\ ext_pc = "loop"
    /\ attempt > max_retries
    /\ ext_pc' = "ValueError"
    /\ UNCHANGED <<max_retries, attempt, requests, data, cleaned>>
    /\ UNCHANGED <<simVars, pipeVars, engVars>>

ExtNext ==
    \/ CheckConnection
    \/ Attempt
    \/ RaiseValueError

\* the call runs on one thread and every request carries a timeout, so a
\* step that can be taken is taken
SpecExtractFair == ExtInit /\ [][ExtNext]_vars /\ WF_vars(ExtNext)

\* ------------------------------------------------------------------------
\* OllamaExtractor._validate_and_clean_data, the list fields (lines
\* 413-427).  A text is its sequence of characters; an item of a list is a
\* text, None or a number.
\* ------------------------------------------------------------------------
Whitespace == {" "}

Text(chars) == [type |-> "str", text |-> chars]

\* str(item)
PyStr(x) ==
    IF x.type = "NoneType" THEN <<"N", "o", "n", "e">> ELSE x.text

RECURSIVE lstrip(_)
lstrip(s) ==
    IF s # <<>> /\ Head(s) \in Whitespace THEN lstrip(Tail(s)) ELSE s

RECURSIVE rstrip(_)
rstrip(s) ==
    IF s # <<>> /\ s[Len(s)] \in Whitespace
    THEN rstrip(SubSeq(s, 1, Len(s) - 1))
    ELSE s

\* str.strip
strip(s) == rstrip(lstrip(s))

\* str.lower
lower(s) ==
    [k \in 1..Len(s) |->
        CASE s[k] = "A" -> "a"
          [] s[k] = "B" -> "b"
          [] s[k] = "N" -> "n"
          [] OTHER -> s[k]]

\* lines 418-424 with the texts themselves remembered as seen
RECURSIVE deduped_list_CaseSensitive(_, _, _)
deduped_list_CaseSensitive(items, seen, out) ==
    IF items = <<>> THEN out
    ELSE LET s_item == strip(PyStr(Head(items)))
         IN  IF s_item # <<>> /\ s_item \notin seen
             THEN deduped_list_CaseSensitive(Tail(items),
                      seen \cup {s_item}, Append(out, s_item))
             ELSE deduped_list_CaseSensitive(Tail(items), seen, out)

\* lines 418-424: the loop over the items of one list
RECURSIVE deduped_list(_, _, _)
deduped_list(items, seen, out) ==
    IF items = <<>> THEN out
    ELSE LET s_item == strip(PyStr(Head(items)))
         IN  IF s_item # <<>> /\ lower(s_item) \notin seen
             THEN deduped_list(Tail(items),
                      seen \cup {lower(s_item)}, Append(out, s_item))
             ELSE deduped_list(Tail(items), seen, out)

\* lines 414-425: data.get(field, []) and the isinstance test
CleanField(value) ==
    IF value.type = "list"
    THEN deduped_list(value.items, {}, <<>>)
    ELSE <<>>

ItemValues ==
    {Text(<<>>), Text(<<" ">>), Text(<<"a">>), Text(<<"A">>),
     Text(<<" ", "a">>), Text(<<"a", " ">>), Text(<<"b">>),
     Text(<<"a", " ", "b">>),
     [type |-> "NoneType", text |-> <<>>],
     [type |-> "int", text |-> <<"5">>]}

PyList(items) == [type |-> "list", items |-> items]

DataValues ==
    {PyList(l) : l \in UNION {[1..n -> ItemValues] : n \in 0..MaxListLen}}
        \cup {Missing,
              [type |-> "NoneType", items |-> <<>>],
              [type |-> "str", items |-> <<>>],
              [type |-> "dict", items |-> <<>>]}

\* the dictionary parsed from the model's answer
ValInit ==
    /\ \E f \in ListFields, v \in DataValues :
          data = [NoData EXCEPT ![f] = v]
    /\ cleaned = NoLists
    /\ max_retries = 3
    /\ ext_pc = "start"
    /\ attempt = 1
    /\ requests = <<>>
    /\ universe = "small"
    /\ jd = EmptyDoc
    /\ res = EmptyDoc
    /\ report = NoReport
    /\ prev = NoReport
    /\ cov = NoCoverage
    /\ op = "init"
    /\ field = "none"
    /\ debug = FALSE
    /\ printed = {}
    /\ PipeQuiet
    /\ EngQuiet

\* _validate_and_clean_data(data, document_text=...)
ValidateAndClean ==
    /\ ext_pc = "start"
    /\ cleaned' = [f \in ListFields |-> CleanField(data[f])]
    /\ ext_pc' = "validated"
    /\ UNCHANGED <<max_retries, attempt, requests, data>>
    /\ UNCHANGED <<simVars, pipeVars, engVars>>

SpecValidate == ValInit /\ [][ValidateAndClean]_vars

\* ------------------------------------------------------------------------
\* Properties.  Reported scores are hundredths of a percent.
\* ------------------------------------------------------------------------
Reported == report.component_scores

\* Sum of the four weighted reported components, in units of 1e-4 percent
WeightedReported ==
    30 * Reported.summary + 30 * Reported.skills
    + 25 * Reported.responsibilities + 15 * Reported.experience

\* C1 (as stated): in every returned report, final_score equals
\* 0.30*summary + 0.30*skills + 0.25*responsibilities + 0.15*experience
\* computed from the report's own component scores.
C1_FinalEqualsWeightedReported ==
    report.returned => 100 * report.final_score = WeightedReported

\* C1 (amended): final_score is the weighted sum 0.30/0.30/0.25/0.15 of the
\* four unrounded component scores, rounded to two decimals, so it is
\* within 0.01 of the weighted sum of the reported components; the weights
\* sum to 1; the certifications score has no influence on final_score.
C1_FinalIsRoundedWeightedSum ==
    /\ RAdd(RAdd(W_SUMMARY, W_SKILLS),
            RAdd(W_RESPONSIBILITIES, W_EXPERIENCE)) = ROne
    /\ report.returned =>
          LET cs == ComponentScores(jd, res)
              total ==
                 RAdd(RAdd(RMul(Rat(30, 100), cs.summary),
                           RMul(Rat(30, 100), cs.skills)),
                      RAdd(RMul(Rat(25, 100), cs.responsibilities),
                           RMul(Rat(15, 100), cs.experience)))
          IN  /\ report.final_score = Round2(total)
              /\ Abs(100 * report.final_score - WeightedReported) <= 100
    /\ (op = "extend" /\ field = "certifications"
        /\ report.returned /\ prev.returned)
          => report.final_score = prev.final_score

\* C1 witness: a resume gained a certification, the certifications score
\* changed, all four weighted components are non-zero and final_score is
\* not the exact weighted sum of the reported components
C1_Witness ==
    /\ op = "extend"
    /\ field = "certifications"
    /\ report.returned
    /\ prev.returned
    /\ Reported.certifications # prev.component_scores.certifications
    /\ Reported.summary # 0
    /\ Reported.skills # 0
    /\ Reported.responsibilities # 0
    /\ Reported.experience # 0
    /\ 100 * report.final_score # WeightedReported

\* C2: in every returned report each of the five component scores and
\* final_score lies in [0, 100].
C2_ScoresWithinZeroToHundred ==
    report.returned =>
        /\ \A k \in DOMAIN Reported : Reported[k] >= 0 /\ Reported[k] <= 10000
        /\ report.final_score >= 0
        /\ report.final_score <= 10000

MaxCosine(jd_item, res_list) ==
    LET sims == {cosine(normalize_vector(jd_item),
                        normalize_vector(res_list[j])) :
                    j \in 1..Len(res_list)}
    IN  CHOOSE m \in sims : \A x \in sims : RLeq(x, m)

RECURSIVE SumFlooredBest(_, _, _, _)
SumFlooredBest(jd_list, res_list, floor, i) ==
    IF i = 0 THEN RZero
    ELSE RAdd(SumFlooredBest(jd_list, res_list, floor, i - 1),
              RMax(floor, MaxCosine(jd_list[i], res_list)))

\* mean over the JD items of max(floor, best)
MeanFlooredBest(jd_list, res_list, floor) ==
    RDivInt(SumFlooredBest(jd_list, res_list, floor, Len(jd_list)),
            Len(jd_list))

\* C4 (as stated): for non-empty lists and any floor, coverage_score is the
\* mean over JD items of max(floor, best), best being the maximum cosine of
\* the JD item against all resume items.
C4_CoverageIsMeanOfFlooredBest ==
    (cov.called /\ Len(jd.skills) > 0 /\ Len(res.skills) > 0)
        => cov.score = MeanFlooredBest(jd.skills, res.skills, cov.floor)

\* C4 (amended): for non-empty lists and any floor >= 0, coverage_score is
\* the mean over JD items of max(floor, best); the floor is applied to each
\* JD item before averaging, and compute_similarity reports the skills
\* score so obtained with floor 0.55.
C4_CoverageIsMeanOfFlooredBestNonNegFloor ==
    /\ (cov.called /\ Len(jd.skills) > 0 /\ Len(res.skills) > 0
        /\ RLeq(RZero, cov.floor))
          => cov.score = MeanFlooredBest(jd.skills, res.skills, cov.floor)
    /\ (report.returned /\ Len(jd.skills) > 0 /\ Len(res.skills) > 0)
          => Reported.skills
                = Round2(MeanFlooredBest(jd.skills, res.skills, Rat(55, 100)))

\* C4 witness: two JD skills, one matched at 1.00 (to two decimals) and one
\* whose best match is below the floor 0.55; the score is 77.50 although
\* the mean of the unfloored best matches is below the floor
C4_Witness ==
    /\ cov.called
    /\ cov.floor = SKILLS_FLOOR
    /\ Len(jd.skills) = 2
    /\ Len(res.skills) > 0
    /\ Round2(MaxCosine(jd.skills[1], res.skills)) = 9999
    /\ RLess(MaxCosine(jd.skills[2], res.skills), SKILLS_FLOOR)
    /\ Round2(cov.score) = 7750
    /\ RLess(MeanFlooredBest(jd.skills, res.skills, RZero), SKILLS_FLOOR)

\* C5: if summary, skills or responsibilities is absent or empty on either
\* side, its component score is 0, whatever the other side contains.
C5_MissingFieldScoresZero ==
    report.returned =>
        /\ (~Truthy(jd.summary) \/ ~Truthy(res.summary))
              => Reported.summary = 0
        /\ (Len(jd.skills) = 0 \/ Len(res.skills) = 0)
              => Reported.skills = 0
        /\ (Len(jd.responsibilities) = 0 \/ Len(res.responsibilities) = 0)
              => Reported.responsibilities = 0

\* C5 witness: the JD lists skills, the resume none; the other components
\* are scored and skills is 0
C5_Witness ==
    /\ report.returned
    /\ Len(jd.skills) > 0
    /\ Len(res.skills) = 0
    /\ Reported.skills = 0
    /\ Reported.responsibilities > 0
    /\ Reported.summary > 0

\* C6: if the JD certification list is empty, or the resume's is, the
\* certifications score is 50.
C6_NoCertificationsIsNeutral ==
    (report.returned
     /\ (Len(jd.certifications) = 0 \/ Len(res.certifications) = 0))
        => Reported.certifications = 5000

\* C6 witness: the JD lists no certification, the resume does
C6_Witness ==
    /\ report.returned
    /\ Len(jd.certifications) = 0
    /\ Len(res.certifications) > 0
    /\ Reported.certifications = 5000

\* the JD certifications having a resume certification with cosine > 0.75
MatchedCerts ==
    {i \in 1..Len(jd.certifications) :
        \E j \in 1..Len(res.certifications) :
            RLess(Rat(75, 100),
                  cosine(normalize_vector(jd.certifications[i]),
                         normalize_vector(res.certifications[j])))}

\* C7: with both certification lists non-empty, the certifications score is
\* 100 * (JD certifications matched) / (JD certifications), a JD
\* certification being matched iff some resume certification has cosine
\* strictly above 0.75 with it; it is counted once however many match.
C7_CertificationsFractionMatched ==
    (report.returned
     /\ Len(jd.certifications) > 0 /\ Len(res.certifications) > 0)
        => LET n == Len(jd.certifications)
               m == Cardinality(MatchedCerts)
           IN  /\ 2 * Abs(Reported.certifications * n - 10000 * m) <= n
               /\ Reported.certifications <= 10000

\* C7 witness: the first JD certification is matched by two equal resume
\* certifications, the second has cosine exactly 0.75 with them and is not
\* matched: score 50.00
C7_Witness ==
    /\ report.returned
    /\ Len(jd.certifications) = 2
    /\ Len(res.certifications) = 2
    /\ res.certifications[1] = res.certifications[2]
    /\ MatchedCerts = {1}
    /\ cosine(normalize_vector(jd.certifications[2]),
              normalize_vector(res.certifications[1])) = Rat(3, 4)
    /\ Reported.certifications = 5000

\* C8: coverage_score is monotonic in the floor: a floor at least as large
\* gives a score at least as large, for the same two lists.
C8_CoverageMonotonicInFloor ==
    cov.called =>
        \A f2 \in Floors :
            RLeq(cov.floor, f2)
                => RLeq(cov.score,
                        coverage_score(jd.skills, res.skills, f2))

\* C8 witness: a call with floor 0.55 on non-empty lists whose score is
\* strictly below the score with floor 0.60 and strictly above floor 0
C8_Witness ==
    /\ cov.called
    /\ cov.floor = SKILLS_FLOOR
    /\ Len(jd.skills) > 0
    /\ Len(res.skills) > 0
    /\ RLess(cov.score, coverage_score(jd.skills, res.skills, RESP_FLOOR))
    /\ RLess(coverage_score(jd.skills, res.skills, RZero), cov.score)

\* C9: adding an item to the resume's skills (responsibilities) list never
\* lowers the skills (responsibilities) score for the same JD.
C9_ExtraResumeItemsNeverLower ==
    (op = "extend" /\ field \in {"skills", "responsibilities"}
     /\ report.returned /\ prev.returned)
        => Reported[field] >= prev.component_scores[field]

\* C9 witness: an item unrelated to every JD skill was added to a non-empty
\* resume skills list and the score, above the floor, stayed the same
C9_Witness ==
    /\ op = "extend"
    /\ field = "skills"
    /\ report.returned
    /\ prev.returned
    /\ Len(res.skills) >= 2
    /\ Len(jd.skills) > 0
    /\ \A i \in 1..Len(jd.skills) :
          RLess(cosine(normalize_vector(jd.skills[i]),
                       normalize_vector(res.skills[Len(res.skills)])),
                RZero)
    /\ Reported.skills = prev.component_scores.skills
    /\ Reported.skills > 6000

\* C10: the summary score is the same when the two documents are exchanged.
C10_SummarySymmetric ==
    (op = "swap" /\ report.returned /\ prev.returned)
        => Reported.summary = prev.component_scores.summary

\* C10 witness: the arguments were exchanged, one summary is multi-chunk,
\* the summary score is non-zero and equal, the skills score differs
C10_Witness ==
    /\ op = "swap"
    /\ report.returned
    /\ prev.returned
    /\ jd.summary.rank = 2
    /\ Len(jd.summary.rows) = 2
    /\ Reported.summary # 0
    /\ Reported.summary = prev.component_scores.summary
    /\ Reported.skills # prev.component_scores.skills

\* ------------------------------------------------------------------------
\* Shape errors, the model-mismatch guard and diagnostics (SpecGuard).
\* ------------------------------------------------------------------------
Called == op \in {"compare", "recompare", "swap"}

BadRank(e) == e.rank \notin {1, 2}

\* two embeddings that cannot be compared: a rank other than 1 or 2, or
\* vectors of different length
BadPair(e1, e2) ==
    \/ BadRank(e1)
    \/ BadRank(e2)
    \/ Len(e1.rows[1]) # Len(e2.rows[1])

\* some field of one of the two documents holds an embedding of a rank
\* other than 1 or 2
FieldBadRank(d1, d2) ==
    \E d \in {d1, d2} :
        \/ Truthy(d.summary) /\ BadRank(d.summary)
        \/ \E f \in ListFields : \E i \in 1..Len(d[f]) : BadRank(d[f][i])

\* a pair of embeddings the call normalizes and compares cannot be compared
InspectedShapeError(d1, d2) ==
    \/ /\ Truthy(d1.summary)
       /\ Truthy(d2.summary)
       /\ BadPair(d1.summary, d2.summary)
    \/ \E f \in {"responsibilities", "skills"} :
          /\ Len(d1[f]) > 0
          /\ Len(d2[f]) > 0
          /\ \E i \in 1..Len(d1[f]), j \in 1..Len(d2[f]) :
                BadPair(d1[f][i], d2[f][j])
    \/ /\ Len(d1.certifications) > 0
       /\ Len(d2.certifications) > 0
       /\ \E i \in 1..Len(d1.certifications) :
             \E j \in 1..Len(d2.certifications) :
                /\ BadPair(d1.certifications[i], d2.certifications[j])
                /\ \A h \in 1..(j - 1) :
                      /\ ~BadPair(d1.certifications[i], d2.certifications[h])
                      /\ RLeq(cosine(normalize_vector(d1.certifications[i]),
                                     normalize_vector(d2.certifications[h])),
                              CERT_THRESHOLD)

\* C15 as stated: whenever a field's embedding data has a rank other than
\* 1 or 2, or two compared vectors differ in dimensionality, the call
\* raises and returns no report.
C15_ShapeErrorNeverScored ==
    (Called /\ (FieldBadRank(jd, res) \/ InspectedShapeError(jd, res)))
        => ~report.returned

\* C15: the call raises and returns no report exactly when an embedding it
\* normalizes has a rank other than 1 or 2 or two vectors it compares differ
\* in dimensionality; embeddings it never inspects (the field is missing on
\* the other side, or a resume certification after the first match) do not
\* stop the report.
C15_InspectedShapeErrorRaises ==
    Called => (report.returned <=> ~InspectedShapeError(jd, res))

\* C15 witness: every rank is 1 or 2, a two-dimensional skill is compared
\* with a three-dimensional one, and the call returned no report
C15_Witness ==
    /\ op = "compare"
    /\ ~debug
    /\ ~FieldBadRank(jd, res)
    /\ \E i \in 1..Len(jd.skills), j \in 1..Len(res.skills) :
          Len(jd.skills[i].rows[1]) # Len(res.skills[j].rows[1])
    /\ ~report.returned

\* C16: a report for two documents with different embedding_model
\* identifiers carries an advisory flag, and a report for documents with
\* matching models carries none.
C16_MismatchFlagOnReport ==
    (Called /\ report.returned)
        => (ModelMismatch(jd, res)
              <=> ReportKeys \ {"component_scores", "final_score"} # {})

\* C17: with diagnostics enabled and with diagnostics disabled the call on
\* the same two documents has the same outcome: the same component scores
\* and final score, or no report both times.
C17_DiagnosticsObservational ==
    op = "recompare" => report = prev

\* C17 witness: the second call ran with diagnostics on, printed an anomaly
\* flag, and returned the non-zero scores of the first call
C17_Witness ==
    /\ op = "recompare"
    /\ debug
    /\ "FLAG_low_summary" \in printed
    /\ report.returned
    /\ report.final_score > 0
    /\ report = prev

\* C18: every call's report is the function of that call's two arguments,
\* whatever was called before and whatever the environment, and a call
\* leaves the two documents as they were.
C18_ReportDependsOnArgumentsOnly ==
    [][/\ report' = compute_similarity(jd', res')
       /\ op' \in {"compare", "recompare"} => (jd' = jd /\ res' = res)]_vars

\* C18 witness: the third call of a sequence took exchanged documents and
\* returned a report different from the one before it
C18_Witness ==
    /\ op = "swap"
    /\ report.returned
    /\ prev.returned
    /\ report # prev
    /\ report = compute_similarity(jd, res)

\* ------------------------------------------------------------------------
\* Embedding conversion (SpecPipeline).  A Vector Document in vector_store
\* is a record with the fields path, keys, source_hash, summary and skills,
\* the last two being the texts whose vectors it holds.
\* ------------------------------------------------------------------------
AllParse == \A p \in DOMAIN files : files[p].parses

\* the record is one the classification loop keeps
Convertible(p) == files[p].parses /\ Classify(files[p]) # "dropped"

BothRunsFinished == Finished(1) /\ Finished(2)

\* the non-empty text items of a field value, in their order
NonEmptyTexts(value) ==
    IF value.type = "str"
    THEN IF value.text = "" THEN <<>> ELSE <<value.text>>
    ELSE IF value.type = "list"
    THEN LET kept == SelectSeq(value.items,
                               LAMBDA v : v.type = "str" /\ v.text # "")
         IN  [k \in 1..Len(kept) |-> kept[k].text]
    ELSE <<>>

\* C11: after two runs over unchanged records, every record has a Vector
\* Document whose source_hash is the digest of the record, and one of the
\* two runs did not call the embedding capability.
C11_SecondRunReusesVectorDocument ==
    (BothRunsFinished /\ edits = 0 /\ AllParse)
        => /\ \A p \in DOMAIN files :
                Convertible(p) =>
                    \E d \in vector_store :
                        /\ d.path = p
                        /\ d.source_hash = _compute_checksum(files[p])
           /\ \E i \in Invocations : encode_calls[i] = 0

\* C12: after a record was changed between two runs, the Vector Document
\* of every record carries the digest of the record's current content.
C12_ChangedRecordRegenerated ==
    (BothRunsFinished /\ edits > 0 /\ AllParse)
        => \A p \in DOMAIN files :
              Convertible(p) =>
                  \E d \in vector_store :
                      /\ d.path = p
                      /\ d.source_hash = _compute_checksum(files[p])

C14_RecordFailureIsolated ==
    \A i \in Invocations :
        (Finished(i) /\ ~AllParse)
            => /\ error[i] = "none"
               /\ \A p \in DOMAIN files :
                     Convertible(p) => \E d \in vector_store : d.path = p

\* C19: no empty text is passed to the embedding capability, and the
\* Vector Document of a record holds one vector per non-empty text item of
\* each field, in order.
C19_NoEmptyTextEmbedded ==
    \A i \in Invocations :
        (Finished(i) /\ AllParse)
            => \A p \in DOMAIN files :
                  Convertible(p) =>
                      /\ \A f \in {"summary", "skills"} :
                            \A k \in DOMAIN EncodeInputs(files[p][f]) :
                                EncodeInputs(files[p][f])[k] # ""
                      /\ \E d \in vector_store :
                            /\ d.path = p
                            /\ d.summary = NonEmptyTexts(files[p].summary)
                            /\ d.skills = NonEmptyTexts(files[p].skills)

\* C20: every record of a finished run has a written Vector Document with
\* the top-level keys embedding_model, source_hash, document_type,
\* experience_years, summary, skills, certifications, responsibilities.
C20_WrittenDocumentKeys ==
    \A i \in Invocations :
        (Finished(i) /\ AllParse)
            => \A p \in DOMAIN files :
                  Convertible(p) =>
                      \E d \in vector_store :
                          /\ d.path = p
                          /\ {"embedding_model", "source_hash",
                               "document_type", "experience_years",
                               "summary", "skills", "certifications",
                               "responsibilities"} \subseteq d.keys

\* C21: the similarity_score and section_scores recorded for a pair equal
\* the final_score and the component_scores of the report that
\* compute_similarity returned for it.
C21_RecordedScoresEqualReport ==
    (op # "init" /\ report.returned)
        => /\ RecordedResult(report).similarity_score = report.final_score
           /\ \A k \in DOMAIN RecordedResult(report).section_scores :
                 RecordedResult(report).section_scores[k]
                     = report.component_scores[k]

\* the number of input records the classification keeps as t
CountOfType(t) == Cardinality({p \in DOMAIN files : Classify(files[p]) = t})

\* C22: a call over n JD records and m resume records returns a list of
\* n * m results, the empty list when n or m is 0.
C22_AllPairsCompared ==
    \A i \in Invocations :
        (Finished(i) /\ AllParse)
            => /\ pc[i] = "returned"
               /\ Len(similarity_results[i])
                     = CountOfType("jd") * CountOfType("resume")

\* ------------------------------------------------------------------------
\* Candidate screening (SpecEngine).
\* ------------------------------------------------------------------------
DecisionRank(decision) ==
    IF decision = "Rejected" THEN 0 ELSE IF decision = "Maybe" THEN 1 ELSE 2

Processed == {processed_candidates[k] : k \in 1..Len(processed_candidates)}

RunEnded == step \in {"returned", "raised", "finished"}

\* C23: with the default thresholds a score is Shortlisted iff it is at
\* least 69, Maybe iff it is at least 50 and below 69, Rejected iff it is
\* below 50, and a higher score never gets a worse decision.
C23_DecisionBands ==
    /\ \A r \in Processed :
          /\ r.decision = "Shortlisted" <=> r.similarity_score >= 6900
          /\ r.decision = "Maybe" <=>
                (r.similarity_score >= 5000 /\ r.similarity_score < 6900)
          /\ r.decision = "Rejected" <=> r.similarity_score < 5000
    /\ \A r1, r2 \in Processed :
          r1.similarity_score <= r2.similarity_score
              => DecisionRank(r1.decision) <= DecisionRank(r2.decision)

\* C23 witness: the scores 49.99, 68.99 and 69.00 were decided Rejected,
\* Maybe and Shortlisted
C23_Witness ==
    /\ \E r \in Processed :
          r.similarity_score = 4999 /\ r.decision = "Rejected"
    /\ \E r \in Processed :
          r.similarity_score = 6899 /\ r.decision = "Maybe"
    /\ \E r \in Processed :
          r.similarity_score = 6900 /\ r.decision = "Shortlisted"

\* the position in uploads of the successful upload of path made for a
\* candidate before index, 0 if there is none
EarlierSuccess(path, index) ==
    IF \E n \in 1..Len(uploads) :
          /\ uploads[n].path = path
          /\ uploads[n].outcome = "ok"
          /\ uploads[n].by < index
    THEN CHOOSE n \in 1..Len(uploads) :
            /\ uploads[n].path = path
            /\ uploads[n].outcome = "ok"
            /\ uploads[n].by < index
    ELSE 0

\* C26: a path is not uploaded again after an upload of it succeeded, and
\* later candidates with the path get the link of that upload; a failed
\* upload is not cached, so the next candidate with the path uploads it
\* again; a candidate whose upload failed is still in processed_candidates.
C26_UploadOncePerPath ==
    /\ \A k, l \in 1..Len(uploads) :
          (k < l /\ uploads[k].path = uploads[l].path)
              => uploads[k].outcome # "ok"
    /\ \A e \in upload_cache :
          \E n \in 1..Len(uploads) :
              /\ uploads[n].path = e.path
              /\ uploads[n].outcome = "ok"
              /\ e.link = DriveLink(e.path, n)
    /\ \A r \in Processed :
          LET path == candidates[r.index].resume_file_path
              n == EarlierSuccess(path, r.index)
          IN  path # "" =>
                IF n > 0
                THEN /\ r.resume_url = DriveLink(path, n)
                     /\ \A m \in 1..Len(uploads) : uploads[m].by # r.index
                ELSE \E m \in 1..Len(uploads) :
                        uploads[m].by = r.index /\ uploads[m].path = path
    /\ \A i \in 1..(cand_idx - 1) :
          candidates[i].flaw = "none" => \E r \in Processed : r.index = i

\* C26 witness: the upload of a path failed for the first candidate, was
\* made again and succeeded for the second, and the third candidate with
\* the path got the link of the second upload; all three were processed
C26_Witness ==
    /\ Len(processed_candidates) = 3
    /\ Len(uploads) = 2
    /\ uploads[1].outcome # "ok"
    /\ uploads[2].outcome = "ok"
    /\ uploads[1].path = uploads[2].path
    /\ processed_candidates[3].resume_url
          = DriveLink(uploads[2].path, 2)
    /\ processed_candidates[2].resume_url
          = processed_candidates[3].resume_url

\* C27: the steps of run occur in the order parse, process, Excel report,
\* email; the email is sent only after the report was created; with no
\* processed candidate there is no report and no email; a failure in
\* parsing or in the report ends the run with no email sent.
C27_RunStepsInOrder ==
    /\ \E n \in 0..4 :
          steps = SubSeq(<<"parse", "process", "excel", "email">>, 1, n)
    /\ email_sent => report_created
    /\ (Len(steps) > 0 /\ steps[Len(steps)] = "email") => report_created
    /\ (RunEnded /\ Len(processed_candidates) = 0)
          => (~report_created /\ ~email_sent /\ Len(steps) <= 2)
    /\ (step = "raised" /\ steps[Len(steps)] \in {"parse", "excel"})
          => ~email_sent

\* C27 witness: a run with a processed candidate went through all four
\* steps and sent the email
C27_Witness ==
    /\ step = "finished"
    /\ steps = <<"parse", "process", "excel", "email">>
    /\ Len(processed_candidates) > 0
    /\ report_created
    /\ email_sent

\* C29: the returned counts add up to the number of processed candidates,
\* and each count is the number of processed candidates with that decision.
C29_StatsMatchProcessed ==
    step \notin {"start", "process"}
        => /\ stats.Shortlisted + stats.Maybe + stats.Rejected
                 = Len(processed_candidates)
           /\ \A d \in {"Shortlisted", "Maybe", "Rejected"} :
                 stats[d] = Cardinality({k \in 1..Len(processed_candidates) :
                                           processed_candidates[k].decision = d})

\* ------------------------------------------------------------------------
\* cosine of a vector with itself and with its negation (SpecCosine).
\* ------------------------------------------------------------------------
\* the squared norm of the JD's summary vector, in units of 1e-8
SummaryNormSquared ==
    LET v == normalize_vector(jd.summary)
    IN  v.x * v.x + v.y * v.y + v.z * v.z

\* C24 as stated: for every vector v, the all-zero vector and vectors of
\* very small norm included, cosine(v, v) as a percentage is within 0.01 of
\* 100 and cosine(v, -v) within 0.01 of -100.
C24_SelfCosineIsHundred ==
    /\ op = "compare" => Reported.summary >= 9999
    /\ op = "negated" => Reported.summary <= -9999

\* C24: for every vector v of norm at least 0.01, cosine(v, v) as a
\* percentage is within 0.01 of 100 and cosine(v, -v) within 0.01 of -100;
\* for a smaller norm n the two values are 100 n^2 / (n^2 + 1e-8) and its
\* negative, which is 0 for the all-zero vector.
C24_SelfCosineIsHundredAboveNorm ==
    /\ (op = "compare" /\ SummaryNormSquared >= 10000)
          => (Reported.summary >= 9999 /\ Reported.summary <= 10000)
    /\ (op = "negated" /\ SummaryNormSquared >= 10000)
          => (Reported.summary <= -9999 /\ Reported.summary >= -10000)
    /\ op \in {"compare", "negated"}
          => Reported.summary =
                Round2(Rat((IF op = "compare" THEN 1 ELSE -1)
                               * SummaryNormSquared,
                           SummaryNormSquared + 1))

\* C24 witness: a vector of norm 0.0125 compared with its negation scored
\* -99.99 after scoring 99.99 against itself
C24_Witness ==
    /\ op = "negated"
    /\ SummaryNormSquared = 15625
    /\ Reported.summary = -9999
    /\ prev.component_scores.summary = 9999

\* ------------------------------------------------------------------------
\* Certifications added to the resume (Spec).
\* ------------------------------------------------------------------------
CertificationAdded ==
    /\ op = "extend"
    /\ field = "certifications"
    /\ report.returned
    /\ prev.returned

\* C30 as stated: a certification added to the resume never lowers the
\* certifications score, also when the resume listed none before.
C30_AddedCertificationNeverLowers ==
    CertificationAdded
        => Reported.certifications >= prev.component_scores.certifications

\* C30: a certification added to a resume that already lists one never
\* lowers the certifications score, and neither does one added when the JD
\* lists none; the first certification of a resume against a JD that lists
\* some moves the score from the neutral 50 to the fraction of JD
\* certifications matched, which is 0 when the certification is unrelated.
C30_AddedCertificationNeverLowersListed ==
    CertificationAdded
        => IF Len(res.certifications) > 1 \/ Len(jd.certifications) = 0
           THEN Reported.certifications
                    >= prev.component_scores.certifications
           ELSE /\ prev.component_scores.certifications = 5000
                /\ Reported.certifications
                      = Round2(Rat(Cardinality(MatchedCerts),
                                   Len(jd.certifications)))

\* C30 witness: the resume listed one certification that missed the JD's,
\* the added one matches, and the score went from 0 to 100
C30_Witness ==
    /\ CertificationAdded
    /\ Len(res.certifications) = 2
    /\ Len(jd.certifications) > 0
    /\ prev.component_scores.certifications = 0
    /\ Reported.certifications = 10000

\* the call of extract_features is over
Terminated == ext_pc \in {"returned", "ConnectionError", "ValueError"}

\* attempt n received data that passes validation
YieldsValid(n) ==
    \E k \in 1..Len(requests) :
        requests[k].attempt = n /\ Validates(requests[k].response)

RetryBounds ==
    /\ Cardinality(Sent("extract")) <= max_retries
    /\ Cardinality(Sent("correct")) <= max_retries - 1
    /\ \A k \in 1..Len(requests) :
          Validates(requests[k].response)
              => k = Len(requests) /\ ext_pc = "returned"
    /\ ext_pc = "returned"
          => /\ YieldsValid(attempt)
             /\ \A n \in 1..(attempt - 1) : ~YieldsValid(n)
    /\ ext_pc = "ValueError"
          => /\ Cardinality(Sent("extract")) = max_retries
             /\ \A n \in 1..max_retries : ~YieldsValid(n)
    /\ ext_pc = "ConnectionError" => requests = <<>>

\* C25: extract_features always terminates; it sends at most max_retries
\* extraction requests and at most max_retries - 1 correction requests,
\* returns at the first attempt whose data passes validation (sending
\* nothing after it), raises ValueError after max_retries attempts
\* otherwise, and raises ConnectionError with no generation request sent
\* when the connection check fails.
C25_ExtractTerminatesWithinBounds == [](RetryBounds) /\ <>Terminated

\* C25 witness: every attempt but the last asked for a correction and the
\* call ended in ValueError
C25_Witness ==
    /\ ext_pc = "ValueError"
    /\ max_retries = MaxRetries
    /\ Cardinality(Sent("extract")) = max_retries
    /\ Cardinality(Sent("correct")) = max_retries - 1

\* the items of a list field of the input, as stripped texts
Stripped(f) ==
    [i \in 1..Len(data[f].items) |-> strip(PyStr(data[f].items[i]))]

\* the positions of the input whose text is non-empty and whose lowered
\* text no earlier position has
FirstOccurrences(f) ==
    {i \in 1..Len(data[f].items) :
        /\ Stripped(f)[i] # <<>>
        /\ \A j \in 1..(i - 1) :
              lower(Stripped(f)[j]) # lower(Stripped(f)[i])}

\* C28: after _validate_and_clean_data each of skills, certifications and
\* responsibilities holds only non-empty texts with no whitespace at
\* either end, no two of them equal when lowered, and they are the
\* stripped input items in first-occurrence order; a field that is
\* missing, None or not a list is the empty list.
C28_ListsCleanedAndDeduplicated ==
    ext_pc = "validated" =>
        \A f \in ListFields :
            LET out == cleaned[f]
                first == FirstOccurrences(f)
            IN  /\ \A k \in 1..Len(out) :
                      /\ out[k] # <<>>
                      /\ out[k][1] \notin Whitespace
                      /\ out[k][Len(out[k])] \notin Whitespace
                /\ \A k, l \in 1..Len(out) :
                      k # l => lower(out[k]) # lower(out[l])
                /\ Len(out) = Cardinality(first)
                /\ \A i \in first :
                      out[Cardinality({j \in first : j <= i})]
                          = Stripped(f)[i]
                /\ data[f].type # "list" => out = <<>>

\* C28 witness: ["", "A", " a"] became ["A"]
C28_Witness ==
    /\ ext_pc = "validated"
    /\ data.skills = PyList(<<Text(<<>>), Text(<<"A">>), Text(<<" ", "a">>)>>)
    /\ cleaned.skills = <<(<<"A">>)>>

====
